---- MODULE Spec2Model ----
(***************************************************************************)
(* Model of uuid_migration_utils.py: relation discovery                    *)
(* (find_related_models), the remediation generator                        *)
(* (generate_through_model_code), the plan builder (create_uuid_migration) *)
(* and the two row-level data steps (generate_uuid_for_model,              *)
(* update_foreign_keys), together with the execution of the returned plan  *)
(* against a small database.                                               *)
(***************************************************************************)
EXTENDS Integers, Sequences, FiniteSets, TLC

(* ------------------------------ bounds --------------------------------- *)
\* number of plain foreign-key holder models that may reference Order
MaxChildren == 2
\* rows stored in every dependent table when the plan is executed
MaxRows == 2

(* --------------------------- names and values -------------------------- *)
AppName == "shop"
None == "None"
\* the value a field that is no relation has for related_model
NoModel == "-"
\* primary keys of the rows present in every table
LivePks == {"1", "2"}
\* primary key of a target row that was deleted: a reference to it is orphaned
GonePk == "9"

\* str.lower() on the identifiers that occur in the registries
Lower(s) ==
    CASE s = "Order" -> "order"
      [] s = "Tag" -> "tag"
      [] s = "OrderTagThrough" -> "ordertagthrough"
      [] s = "TagOrderThrough" -> "tagorderthrough"
      [] s = "OrderOrderThrough" -> "orderorderthrough"
      [] s = "TagTagThrough" -> "tagtagthrough"
      [] s = "LineItem" -> "lineitem"
      [] s = "Invoice" -> "invoice"
      [] s = "Shipment" -> "shipment"
      [] OTHER -> s

RECURSIVE Flatten(_)
\* ss[1] \o ss[2] \o ...: what the appends of a for loop leave, in order
Flatten(ss) ==
    IF ss = <<>> THEN <<>> ELSE Head(ss) \o Flatten(Tail(ss))

Range(s) == {s[i] : i \in DOMAIN s}

(* ------------------------------ registry ------------------------------- *)
ChildNames == <<"LineItem", "Invoice", "Shipment">>

M2MKinds ==
    {"none", "implicit_out", "implicit_in", "implicit_self", "explicit_out", "explicit_in"}

PlainField(n) ==
    [name |-> n, is_relation |-> FALSE, related_model |-> NoModel, null |-> FALSE]

ForeignKey(n, to, nullable) ==
    [name |-> n, is_relation |-> TRUE, related_model |-> to, null |-> nullable]

ManyToManyField(n, to, through, auto) ==
    [name |-> n, related_model |-> to, through |-> through, auto_created |-> auto]

DjangoModel(n, fs, m2m) ==
    [object_name |-> n, app_label |-> AppName, fields |-> fs, many_to_many |-> m2m]

\* The registry snapshot of one configuration: Order, Tag, up to MaxChildren
\* models with a foreign key "order", and (for the explicit kinds) the join
\* entity OrderTagThrough with its two foreign keys in either declaration
\* order, placed before or after the other dependents.
Registry(cfg) ==
    LET order == DjangoModel("Order", <<PlainField("id")>>,
                    CASE cfg.m2m = "implicit_out" ->
                           <<ManyToManyField("tags", "Tag", "Order_tags", TRUE)>>
                      [] cfg.m2m = "explicit_out" ->
                           <<ManyToManyField("tags", "Tag", "OrderTagThrough", FALSE)>>
                      [] cfg.m2m = "implicit_self" ->
                           <<ManyToManyField("friends", "Order", "Order_friends", TRUE)>>
                      [] OTHER -> <<>>)
        tag == DjangoModel("Tag", <<PlainField("id")>>,
                    CASE cfg.m2m = "implicit_in" ->
                           <<ManyToManyField("orders", "Order", "Tag_orders", TRUE)>>
                      [] cfg.m2m = "explicit_in" ->
                           <<ManyToManyField("orders", "Order", "OrderTagThrough", FALSE)>>
                      [] OTHER -> <<>>)
        fkOrder == ForeignKey("order", "Order", FALSE)
        fkTag == ForeignKey("tag", "Tag", FALSE)
        join == DjangoModel("OrderTagThrough",
                    IF cfg.targetFirst THEN <<PlainField("id"), fkOrder, fkTag>>
                                       ELSE <<PlainField("id"), fkTag, fkOrder>>,
                    <<>>)
        explicit == cfg.m2m \in {"explicit_out", "explicit_in"}
        children == [i \in 1..Len(cfg.nulls) |->
                        DjangoModel(ChildNames[i],
                            <<PlainField("id"), ForeignKey("order", "Order", cfg.nulls[i])>>,
                            <<>>)]
    IN  <<order>>
        \o (IF explicit /\ cfg.throughFirst THEN <<join>> ELSE <<>>)
        \o children
        \o <<tag>>
        \o (IF explicit /\ ~cfg.throughFirst THEN <<join>> ELSE <<>>)

Configs ==
    {c \in [nulls : UNION {[1..n -> BOOLEAN] : n \in 0..MaxChildren},
            m2m : M2MKinds, targetFirst : BOOLEAN, throughFirst : BOOLEAN] :
        \* the two layout flags only matter when there is a join entity
        c.m2m \notin {"explicit_out", "explicit_in"} => c.targetFirst /\ c.throughFirst}

\* apps_registry.get_model(app_name, model_name)
GetModel(reg, name) == CHOOSE m \in Range(reg) : m.object_name = name

(* ------------------------ find_related_models -------------------------- *)
\* lines 57-64: the foreign keys of one model that reference the target
FkEntriesOf(model, parent) ==
    Flatten([i \in DOMAIN model.fields |->
        LET field == model.fields[i]
        IN  IF field.is_relation /\ field.related_model = parent
            THEN <<[model |-> model.object_name, app_name |-> model.app_label,
                    fk_field |-> field.name]>>
            ELSE <<>>])

\* lines 67-76: the implicit many-to-many fields of one model that point at the target
ImplicitEntriesOf(model, parent) ==
    Flatten([i \in DOMAIN model.many_to_many |->
        LET field == model.many_to_many[i]
        IN  IF field.related_model = parent /\ field.auto_created
            THEN <<[model |-> model.object_name, app_name |-> model.app_label,
                    field_name |-> field.name]>>
            ELSE <<>>])

\* lines 81-87: the foreign keys of a join entity that reference the target
ThroughFieldsToParent(through_model, parent) ==
    Flatten([j \in DOMAIN through_model.fields |->
        LET through_field == through_model.fields[j]
        IN  IF through_field.is_relation /\ through_field.related_model = parent
            THEN <<[model |-> through_model.object_name,
                    app_name |-> through_model.app_label,
                    field_name |-> through_field.name]>>
            ELSE <<>>])

\* lines 67-87: for every explicit many-to-many field of one model that points
\* at the target, the foreign keys of its join entity that reference the target
ThroughEntriesOf(reg, model, parent) ==
    Flatten([i \in DOMAIN model.many_to_many |->
        LET field == model.many_to_many[i]
        IN  IF field.related_model = parent /\ ~field.auto_created
            THEN ThroughFieldsToParent(GetModel(reg, field.through), parent)
            ELSE <<>>])

\* lines 90-99: the implicit many-to-many fields declared on the target itself
OwnImplicitEntries(reg, app_name, parent_model) ==
    LET own == GetModel(reg, parent_model).many_to_many
    IN  Flatten([i \in DOMAIN own |->
            LET field == own[i]
            IN  IF field.auto_created
                THEN <<[model |-> parent_model, app_name |-> app_name,
                        field_name |-> field.name,
                        related_model |-> GetModel(reg, field.related_model).object_name,
                        related_app |-> GetModel(reg, field.related_model).app_label]>>
                ELSE <<>>])

\* lines 109-119: for one foreign key of the join entity that points away from
\* the target, every other foreign key of the join entity that references it
OtherFieldsToParent(through_model, through_field, parent_model) ==
    Flatten([k \in DOMAIN through_model.fields |->
        LET other_field == through_model.fields[k]
        IN  IF /\ other_field.is_relation
               /\ other_field.related_model = parent_model
               /\ other_field.name # through_field.name
            THEN <<[model |-> through_model.object_name,
                    app_name |-> through_model.app_label,
                    field_name |-> other_field.name]>>
            ELSE <<>>])

\* lines 100-119: the explicit many-to-many fields declared on the target itself
OwnThroughEntries(reg, parent_model) ==
    LET own == GetModel(reg, parent_model).many_to_many
    IN  Flatten([i \in DOMAIN own |->
            LET field == own[i]
                through_model == GetModel(reg, field.through)
            IN  IF ~field.auto_created
                THEN Flatten([j \in DOMAIN through_model.fields |->
                        LET through_field == through_model.fields[j]
                        IN  IF through_field.is_relation
                               /\ through_field.related_model # parent_model
                            THEN OtherFieldsToParent(through_model, through_field,
                                                     parent_model)
                            ELSE <<>>])
                ELSE <<>>])

find_related_models(reg, app_name, parent_model) ==
    [fk_models |-> Flatten([i \in DOMAIN reg |-> FkEntriesOf(reg[i], parent_model)]),
     implicit_m2m |->
        Flatten([i \in DOMAIN reg |-> ImplicitEntriesOf(reg[i], parent_model)])
        \o OwnImplicitEntries(reg, app_name, parent_model),
     through_models |->
        Flatten([i \in DOMAIN reg |-> ThroughEntriesOf(reg, reg[i], parent_model)])
        \o OwnThroughEntries(reg, parent_model)]

(* --------------------- generate_through_model_code --------------------- *)
\* dict.get(key, default) and the "key in dict" test of Python
Get(d, k, default) == IF k \in DOMAIN d THEN d[k] ELSE default

\* d[k] = v on a dict modelled as a function
Put(d, k, v) == [x \in DOMAIN d \cup {k} |-> IF x = k THEN v ELSE d[x]]

EmptyDict == [x \in {} |-> None]

\* lines 131-144: the two sides the generator takes for one implicit relation
ThroughSides(m2m) ==
    IF "related_model" \in DOMAIN m2m
    THEN [source_model |-> m2m.model, source_app |-> m2m.app_name,
          target_model |-> m2m.related_model, target_app |-> m2m.related_app]
    ELSE [source_model |-> Get(m2m, "related_model", m2m.model),
          source_app |-> Get(m2m, "related_app", m2m.app_name),
          target_model |-> m2m.model, target_app |-> m2m.app_name]

\* line 147
ThroughModelName(m2m) ==
    ThroughSides(m2m).source_model \o ThroughSides(m2m).target_model \o "Through"

\* line 150
AutomaticTableName(m2m) ==
    Lower(ThroughSides(m2m).source_app) \o "_" \o Lower(ThroughSides(m2m).source_model)
        \o "_" \o Lower(m2m.field_name)

\* lines 153-163: the generated class, as its name, its two foreign keys in
\* declaration order and its uniqueness constraint
ModelCode(m2m) ==
    LET s == ThroughSides(m2m)
    IN  [class |-> ThroughModelName(m2m),
         foreign_keys |->
            <<[name |-> Lower(s.source_model),
               to |-> s.source_app \o "." \o s.source_model],
              [name |-> Lower(s.target_model),
               to |-> s.target_app \o "." \o s.target_model]>>,
         unique_fields |-> <<Lower(s.source_model), Lower(s.target_model)>>,
         unique_name |-> "unique_" \o Lower(s.source_model) \o "_" \o Lower(s.target_model)]

\* lines 166-219: the two-phase recipe, as the names it is built from
MigrationHint(m2m) ==
    LET s == ThroughSides(m2m)
    IN  [dependency_app |-> s.source_app,
         create_model |-> ThroughModelName(m2m),
         alter_table_of |-> Lower(ThroughModelName(m2m)),
         phase1_table |-> AutomaticTableName(m2m),
         altered_model |-> Lower(s.source_model),
         altered_field |-> m2m.field_name,
         through |-> s.source_app \o "." \o ThroughModelName(m2m),
         to |-> s.target_app \o "." \o s.target_model,
         phase2_table |-> None]

RECURSIVE CodeDict(_, _)
\* lines 127-130, 221: through_models_code, filled relation by relation
CodeDict(implicit_m2m, acc) ==
    IF implicit_m2m = <<>> THEN acc
    ELSE CodeDict(Tail(implicit_m2m),
                  Put(acc, ThroughModelName(Head(implicit_m2m)), ModelCode(Head(implicit_m2m))))

RECURSIVE HintDict(_, _)
\* lines 128-130, 222: migration_hints, filled relation by relation
HintDict(implicit_m2m, acc) ==
    IF implicit_m2m = <<>> THEN acc
    ELSE HintDict(Tail(implicit_m2m),
                  Put(acc, ThroughModelName(Head(implicit_m2m)), MigrationHint(Head(implicit_m2m))))

generate_through_model_code(implicit_m2m) ==
    [through_models_code |-> CodeDict(implicit_m2m, EmptyDict),
     migration_hints |-> HintDict(implicit_m2m, EmptyDict)]

(* ------------------------ create_uuid_migration ------------------------ *)
PkField == "id"
Unbound == "<unbound>"

\* models.UUIDField(...) with the keyword arguments the plan uses
UUIDField(nullable, primary_key, has_default) ==
    [type |-> "UUIDField", null |-> nullable, primary_key |-> primary_key,
     default |-> IF has_default THEN "uuid4" ELSE None, to |-> NoModel]

\* models.ForeignKey(on_delete=models.CASCADE, to=...): null keeps its default
RestoredForeignKey(to) ==
    [type |-> "ForeignKey", null |-> FALSE, primary_key |-> FALSE,
     default |-> None, to |-> to]

AddField(model_name, name, field) ==
    [op |-> "AddField", model_name |-> model_name, name |-> name, field |-> field]

AlterField(model_name, name, field) ==
    [op |-> "AlterField", model_name |-> model_name, name |-> name, field |-> field]

RemoveField(model_name, name) ==
    [op |-> "RemoveField", model_name |-> model_name, name |-> name]

RenameField(model_name, old_name, new_name) ==
    [op |-> "RenameField", model_name |-> model_name, old_name |-> old_name,
     new_name |-> new_name]

\* migrations.RunPython(lambda apps, schema_editor: code(...)): the lambda is
\* kept as the function it calls and the loop whose variables it closes over
RunPython(code, scope) ==
    [op |-> "RunPython", model_name |-> None, code |-> code, scope |-> scope]

\* faulty variant of OwnSurrogateSteps: the surrogate is never tightened
OwnSurrogateStepsUntightened(parent, pk_field) ==
    <<AddField(Lower(parent), pk_field \o "_uuid", UUIDField(TRUE, FALSE, FALSE)),
      RunPython("generate_uuid_for_model", "parameters")>>

\* lines 291-316
OwnSurrogateSteps(parent, pk_field) ==
    <<AddField(Lower(parent), pk_field \o "_uuid", UUIDField(TRUE, FALSE, FALSE)),
      RunPython("generate_uuid_for_model", "parameters"),
      AlterField(Lower(parent), pk_field \o "_uuid", UUIDField(FALSE, FALSE, TRUE))>>

\* lines 320-359: the four steps of one explicit join entity
ThroughSteps(through) ==
    <<AddField(Lower(through.model), through.field_name \o "_uuid",
               UUIDField(TRUE, FALSE, FALSE)),
      RunPython("update_foreign_keys", "through"),
      RemoveField(Lower(through.model), through.field_name),
      RenameField(Lower(through.model), through.field_name \o "_uuid", through.field_name)>>

\* lines 362-401: the four steps of one child model
ChildSteps(child) ==
    <<AddField(Lower(child.model), child.fk_field \o "_uuid", UUIDField(TRUE, FALSE, FALSE)),
      RunPython("update_foreign_keys", "child"),
      RemoveField(Lower(child.model), child.fk_field),
      RenameField(Lower(child.model), child.fk_field \o "_uuid", child.fk_field)>>

\* lines 403-427
PrimaryKeySwapSteps(parent, pk_field) ==
    <<RemoveField(Lower(parent), pk_field),
      RenameField(Lower(parent), pk_field \o "_uuid", pk_field),
      AlterField(Lower(parent), pk_field, UUIDField(FALSE, TRUE, TRUE))>>

\* lines 430-441
ChildForeignKeySteps(parent, app_name, child_models) ==
    [i \in DOMAIN child_models |->
        AlterField(Lower(child_models[i].model), child_models[i].fk_field,
                   RestoredForeignKey(app_name \o "." \o parent))]

\* lines 444-456
ThroughForeignKeySteps(parent, app_name, through_models) ==
    [i \in DOMAIN through_models |->
        AlterField(Lower(through_models[i].model), through_models[i].field_name,
                   RestoredForeignKey(app_name \o "." \o parent))]

\* faulty variant of PlanOperations: the primary key is swapped before the
\* children are repointed
PlanOperationsPkSwapFirst(parent, app_name, pk_field, through_models, child_models) ==
    OwnSurrogateSteps(parent, pk_field)
    \o Flatten([i \in DOMAIN through_models |-> ThroughSteps(through_models[i])])
    \o PrimaryKeySwapSteps(parent, pk_field)
    \o Flatten([i \in DOMAIN child_models |-> ChildSteps(child_models[i])])
    \o ChildForeignKeySteps(parent, app_name, child_models)
    \o ThroughForeignKeySteps(parent, app_name, through_models)

\* lines 291-456: the operations list, for the child list and the join
\* entities the function works with (the latter empty without discovery)
PlanOperations(parent, app_name, pk_field, through_models, child_models) ==
    OwnSurrogateSteps(parent, pk_field)
    \o Flatten([i \in DOMAIN through_models |-> ThroughSteps(through_models[i])])
    \o Flatten([i \in DOMAIN child_models |-> ChildSteps(child_models[i])])
    \o PrimaryKeySwapSteps(parent, pk_field)
    \o ChildForeignKeySteps(parent, app_name, child_models)
    \o ThroughForeignKeySteps(parent, app_name, through_models)

\* The loop variables of create_uuid_migration when it returns: the lambdas
\* of lines 337 and 379 read them when the plan runs. The loops of lines 430
\* and 445 assign the same names again and leave each at its last element.
FinalCells(app_name, through_models, child_models) ==
    LET lastChild == child_models[Len(child_models)]
        lastThrough == through_models[Len(through_models)]
    IN  [child_model |-> IF child_models = <<>> THEN Unbound ELSE lastChild.model,
         fk_field |-> IF child_models = <<>> THEN Unbound ELSE lastChild.fk_field,
         child_app |-> IF child_models = <<>> THEN Unbound
                       ELSE Get(lastChild, "app_name", app_name),
         through_model |-> IF through_models = <<>> THEN Unbound ELSE lastThrough.model,
         field_name |-> IF through_models = <<>> THEN Unbound ELSE lastThrough.field_name,
         through_app |-> IF through_models = <<>> THEN Unbound
                         ELSE Get(lastThrough, "app_name", app_name)]

\* lines 248-281: what the ValueError carries
BlockingError(implicit_m2m) ==
    [listed |-> [i \in DOMAIN implicit_m2m |->
                    <<implicit_m2m[i].app_name, implicit_m2m[i].model,
                      implicit_m2m[i].field_name>>],
     through_models_code |-> generate_through_model_code(implicit_m2m).through_models_code,
     migration_hints |-> generate_through_model_code(implicit_m2m).migration_hints]

NothingFound == [fk_models |-> <<>>, implicit_m2m |-> <<>>, through_models |-> <<>>]

(* ------------------------------ database ------------------------------- *)
PkNames == <<"1", "2", "3">>

\* the column a model field is stored in, as the migration state describes it
Column(field) ==
    IF field.is_relation
    THEN [type |-> "ForeignKey", null |-> field.null, primary_key |-> FALSE,
          default |-> None, to |-> AppName \o "." \o field.related_model]
    ELSE [type |-> "AutoField", null |-> FALSE, primary_key |-> TRUE,
          default |-> None, to |-> NoModel]

\* The tables before the migration. A model without foreign keys holds one
\* row per live primary key; a model with foreign keys holds MaxRows rows,
\* row i referencing refs[i].
InitialDb(reg, refs) ==
    [t \in {Lower(m.object_name) : m \in Range(reg)} |->
        LET m == CHOOSE x \in Range(reg) : Lower(x.object_name) = t
            names == {f.name : f \in Range(m.fields)}
            field(n) == CHOOSE f \in Range(m.fields) : f.name = n
            dependent == \E f \in Range(m.fields) : f.is_relation
        IN  [fields |-> [n \in names |-> Column(field(n))],
             rows |-> IF dependent
                      THEN [i \in 1..MaxRows |->
                                [n \in names |-> IF field(n).is_relation THEN refs[i]
                                                 ELSE PkNames[i]]]
                      ELSE [i \in 1..Cardinality(LivePks) |-> [n \in names |-> PkNames[i]]]]]

\* uuid.uuid4() for the i-th row of a table: a value no other row receives
Uuid4(i) == "uuid-" \o PkNames[i]

\* lines 5-13: setattr + save on every row; save() writes the model's fields only
generate_uuid_for_model(database, model_name, pk_field) ==
    LET t == Lower(model_name)
        T == database[t]
        attr == pk_field \o "_uuid"
    IN  [raised |-> FALSE,
         db |-> [database EXCEPT ![t].rows =
                    [i \in DOMAIN T.rows |->
                        IF attr \in DOMAIN T.fields
                        THEN [T.rows[i] EXCEPT ![attr] = Uuid4(i)]
                        ELSE T.rows[i]]]]

\* faulty variant of OnDoesNotExist: the exception is not handled
OnDoesNotExistRaises(C, fk_field, row) == [raised |-> TRUE, row |-> row]

\* lines 28-33: the handler of ParentModel.DoesNotExist for one child row
OnDoesNotExist(C, fk_field, row) ==
    IF C.fields[fk_field].null
    THEN [raised |-> FALSE,
          row |-> IF fk_field \o "_uuid" \in DOMAIN C.fields
                  THEN [row EXCEPT ![fk_field \o "_uuid"] = None] ELSE row]
    ELSE [raised |-> FALSE, row |-> row]

\* lines 24-33: the body of the loop for one child row. getattr(child,
\* fk_field + "_id") exists only while fk_field is a foreign key of the child.
ChildRowStep(P, C, fk_field, pk_field, row) ==
    IF ~(fk_field \in DOMAIN C.fields /\ C.fields[fk_field].type = "ForeignKey")
       \/ pk_field \notin DOMAIN P.fields
    THEN [raised |-> TRUE, row |-> row]
    ELSE LET hits == {k \in DOMAIN P.rows : P.rows[k][pk_field] = row[fk_field]}
         IN  IF hits = {} THEN OnDoesNotExist(C, fk_field, row)
             ELSE IF pk_field \o "_uuid" \notin DOMAIN P.fields
                  THEN [raised |-> TRUE, row |-> row]
                  ELSE [raised |-> FALSE,
                        row |-> IF fk_field \o "_uuid" \in DOMAIN C.fields
                                THEN [row EXCEPT ![fk_field \o "_uuid"] =
                                        P.rows[CHOOSE k \in hits : TRUE][pk_field \o "_uuid"]]
                                ELSE row]

RECURSIVE ChildLoop(_, _, _, _, _, _)
\* line 23: the rows in order; an exception that leaves the loop ends it
ChildLoop(P, C, fk_field, pk_field, rows, done) ==
    IF rows = <<>> THEN [raised |-> FALSE, rows |-> done]
    ELSE LET r == ChildRowStep(P, C, fk_field, pk_field, Head(rows))
         IN  IF r.raised THEN [raised |-> TRUE, rows |-> done \o rows]
             ELSE ChildLoop(P, C, fk_field, pk_field, Tail(rows), Append(done, r.row))

\* lines 15-33
update_foreign_keys(database, parent, child_model, fk_field, pk_field) ==
    LET c == Lower(child_model)
        r == ChildLoop(database[Lower(parent)], database[c], fk_field, pk_field,
                       database[c].rows, <<>>)
    IN  [raised |-> r.raised, db |-> [database EXCEPT ![c].rows = r.rows]]

(* ------------------------- running the plan ---------------------------- *)
WithoutKey(f, k) == [x \in DOMAIN f \ {k} |-> f[x]]

Renamed(f, old, new) ==
    [x \in (DOMAIN f \ {old}) \cup {new} |-> IF x = new THEN f[old] ELSE f[x]]

\* migrations.AddField of lines 293, 327, 369: a new column, empty in every row
DoAddField(database, o) ==
    LET T == database[o.model_name]
    IN  IF o.name \in DOMAIN T.fields THEN [raised |-> TRUE, db |-> database]
        ELSE [raised |-> FALSE,
              db |-> [database EXCEPT ![o.model_name] =
                        [fields |-> Put(T.fields, o.name, o.field),
                         rows |-> [i \in DOMAIN T.rows |-> Put(T.rows[i], o.name, None)]]]]

\* migrations.RemoveField of lines 346, 388, 405: the column and its values go
DoRemoveField(database, o) ==
    LET T == database[o.model_name]
    IN  IF o.name \notin DOMAIN T.fields THEN [raised |-> TRUE, db |-> database]
        ELSE [raised |-> FALSE,
              db |-> [database EXCEPT ![o.model_name] =
                        [fields |-> WithoutKey(T.fields, o.name),
                         rows |-> [i \in DOMAIN T.rows |-> WithoutKey(T.rows[i], o.name)]]]]

\* migrations.RenameField of lines 354, 396, 413: the values stay
DoRenameField(database, o) ==
    LET T == database[o.model_name]
    IN  IF o.old_name \notin DOMAIN T.fields \/ o.new_name \in DOMAIN T.fields
        THEN [raised |-> TRUE, db |-> database]
        ELSE [raised |-> FALSE,
              db |-> [database EXCEPT ![o.model_name] =
                        [fields |-> Renamed(T.fields, o.old_name, o.new_name),
                         rows |-> [i \in DOMAIN T.rows |->
                                      Renamed(T.rows[i], o.old_name, o.new_name)]]]]

\* migrations.AlterField of lines 311, 422, 436, 451: the column takes the new
\* definition; a column that is not nullable rejects a table with an empty value
DoAlterField(database, o) ==
    LET T == database[o.model_name]
    IN  IF o.name \notin DOMAIN T.fields
           \/ (~o.field.null /\ \E i \in DOMAIN T.rows : T.rows[i][o.name] = None)
        THEN [raised |-> TRUE, db |-> database]
        ELSE [raised |-> FALSE,
              db |-> [database EXCEPT ![o.model_name].fields[o.name] = o.field]]

\* The call a RunPython lambda makes when it runs: the loop variables are
\* looked up then (lines 303-305, 337-340, 379-382)
DoRunPython(database, o, parent, pk_field, env) ==
    CASE o.scope = "parameters" -> generate_uuid_for_model(database, parent, pk_field)
      [] o.scope = "through" ->
            update_foreign_keys(database, parent, env.through_model, env.field_name, pk_field)
      [] o.scope = "child" ->
            update_foreign_keys(database, parent, env.child_model, env.fk_field, pk_field)

(* ------------------------------- state --------------------------------- *)
VARIABLES
    registry,               \* the models the registry collaborator knows
    refs,                   \* what the rows of the dependent tables referenced at first
    parent_model,           \* argument: the target entity
    auto_detect_relations,  \* argument
    child_models,           \* argument: [given, value], given = FALSE for None
    pc,                     \* "start", "raised", "built", "failed", "applied"
    found,                  \* fk_related, implicit_m2m, through_models (line 243)
    error,                  \* what the ValueError of line 281 carries
    operations,             \* the plan
    cells,                  \* the loop variables the lambdas of the plan read
    db,                     \* the tables the plan runs against
    ip                      \* index of the next operation to run

vars == <<registry, refs, parent_model, auto_detect_relations, child_models, pc, found,
          error, operations, cells, db, ip>>

\* the foreign-key holders a caller lists by hand: the models that are not
\* join entities, each as {'model': ..., 'fk_field': ...}
HandWrittenChildren(reg, parent) ==
    Flatten([i \in DOMAIN reg |->
        IF \E m \in Range(reg) : \E f \in Range(m.many_to_many) :
                f.through = reg[i].object_name
        THEN <<>>
        ELSE [j \in DOMAIN FkEntriesOf(reg[i], parent) |->
                [model |-> FkEntriesOf(reg[i], parent)[j].model,
                 fk_field |-> FkEntriesOf(reg[i], parent)[j].fk_field]]])

NoError == [listed |-> <<>>, through_models_code |-> EmptyDict, migration_hints |-> EmptyDict]

Init ==
    /\ \E cfg \in Configs : registry = Registry(cfg)
    /\ refs \in [1..MaxRows -> LivePks \cup {GonePk}]
    /\ parent_model \in {"Order", "Tag"}
    /\ auto_detect_relations \in BOOLEAN
    /\ child_models \in {[given |-> FALSE, value |-> <<>>],
                         [given |-> TRUE, value |-> HandWrittenChildren(registry, parent_model)]}
    /\ pc = "start"
    /\ found = NothingFound
    /\ error = NoError
    /\ operations = <<>>
    /\ cells = FinalCells(AppName, <<>>, <<>>)
    /\ db = InitialDb(registry, refs)
    /\ ip = 1

\* lines 226-464
create_uuid_migration ==
    /\ pc = "start"
    /\ LET discovered == IF auto_detect_relations
                         THEN find_related_models(registry, AppName, parent_model)
                         ELSE NothingFound
           children == IF child_models.given THEN child_models.value
                       ELSE discovered.fk_models
       IN  /\ found' = discovered
           /\ IF auto_detect_relations /\ discovered.implicit_m2m # <<>>
              THEN /\ pc' = "raised"
                   /\ error' = BlockingError(discovered.implicit_m2m)
                   /\ UNCHANGED <<operations, cells>>
              ELSE /\ pc' = "built"
                   /\ operations' = PlanOperations(parent_model, AppName, PkField,
                                                   discovered.through_models, children)
                   /\ cells' = FinalCells(AppName, discovered.through_models, children)
                   /\ UNCHANGED error
    /\ UNCHANGED <<registry, refs, parent_model, auto_detect_relations, child_models, db, ip>>

\* the migration runner is about to apply an operation of this kind
Ready(kind) ==
    /\ pc = "built"
    /\ ip <= Len(operations)
    /\ operations[ip].op = kind

\* the outcome of applying operations[ip]: an exception aborts the run and
\* leaves the tables as they were before the operation
Finish(r) ==
    /\ IF r.raised
       THEN /\ pc' = "failed"
            /\ UNCHANGED <<db, ip>>
       ELSE /\ db' = r.db
            /\ ip' = ip + 1
            /\ pc' = IF ip = Len(operations) THEN "applied" ELSE "built"
    /\ UNCHANGED <<registry, refs, parent_model, auto_detect_relations, child_models,
                   found, error, operations, cells>>

ApplyAddField ==
    /\ Ready("AddField")
    /\ Finish(DoAddField(db, operations[ip]))

ApplyRunPython ==
    /\ Ready("RunPython")
    /\ Finish(DoRunPython(db, operations[ip], parent_model, PkField, cells))

ApplyRemoveField ==
    /\ Ready("RemoveField")
    /\ Finish(DoRemoveField(db, operations[ip]))

ApplyRenameField ==
    /\ Ready("RenameField")
    /\ Finish(DoRenameField(db, operations[ip]))

ApplyAlterField ==
    /\ Ready("AlterField")
    /\ Finish(DoAlterField(db, operations[ip]))

Next ==
    \/ create_uuid_migration
    \/ ApplyAddField
    \/ ApplyRunPython
    \/ ApplyRemoveField
    \/ ApplyRenameField
    \/ ApplyAlterField

Spec == Init /\ [][Next]_vars

(* ======================= C1: end-to-end scenario ======================= *)
ExplicitKinds == {"explicit_out", "explicit_in"}

\* Order with the one non-nullable dependent LineItem.order and the join
\* entity OrderTagThrough, planned with automatic discovery
EndToEndScenario ==
    /\ parent_model = "Order"
    /\ auto_detect_relations
    /\ ~child_models.given
    /\ \E cfg \in Configs :
          /\ cfg.nulls = <<FALSE>>
          /\ cfg.m2m \in ExplicitKinds
          /\ registry = Registry(cfg)

\* the step kind of an operation, in the words of the scenario
StepKind(o) ==
    CASE o.op = "AddField" -> "AddField"
      [] o.op = "RunPython" -> "Populate"
      [] o.op = "RemoveField" -> "Remove"
      [] o.op = "RenameField" -> "Rename"
      [] o.op = "AlterField" /\ o.field.type = "ForeignKey" -> "SetFK"
      [] o.op = "AlterField" /\ o.field.primary_key -> "SetPK"
      [] OTHER -> "Alter"

Shape(ops) == [i \in DOMAIN ops |-> <<StepKind(ops[i]), ops[i].model_name>>]

ExpectedEndToEndShape ==
    <<<<"AddField", "order">>, <<"Populate", None>>, <<"Alter", "order">>,
      <<"AddField", "ordertagthrough">>, <<"Populate", None>>,
      <<"Remove", "ordertagthrough">>, <<"Rename", "ordertagthrough">>,
      <<"AddField", "lineitem">>, <<"Populate", None>>,
      <<"Remove", "lineitem">>, <<"Rename", "lineitem">>,
      <<"Remove", "order">>, <<"Rename", "order">>, <<"SetPK", "order">>,
      <<"SetFK", "lineitem">>, <<"SetFK", "ordertagthrough">>>>

\* C1: in the end-to-end scenario create_uuid_migration returns a plan of
\* exactly the 16 operations of the expected kinds and entities, in order.
C1_EndToEndPlan ==
    (pc # "start" /\ EndToEndScenario) =>
        /\ pc # "raised"
        /\ Shape(operations) = ExpectedEndToEndShape

(* ================= C2: discovery partitions the relations ============== *)
\* the foreign-key fields of the registry that reference the target
FkRelations(reg, parent) ==
    UNION {{<<m.object_name, f.name>> :
                f \in {x \in Range(m.fields) : x.is_relation /\ x.related_model = parent}} :
           m \in Range(reg)}

\* the many-to-many fields of the registry with the target on either side
M2MRelations(reg, parent, auto) ==
    UNION {{<<m.object_name, f.name>> :
                f \in {x \in Range(m.many_to_many) :
                          /\ x.auto_created = auto
                          /\ (x.related_model = parent \/ m.object_name = parent)}} :
           m \in Range(reg)}

\* the foreign keys into the target of the join entities of its explicit relations
JoinRelations(reg, parent) ==
    {r \in FkRelations(reg, parent) :
        \E m \in Range(reg) : \E f \in Range(m.many_to_many) :
            /\ <<m.object_name, f.name>> \in M2MRelations(reg, parent, FALSE)
            /\ f.through = r[1]}

FkKeys(d) == [i \in DOMAIN d.fk_models |-> <<d.fk_models[i].model, d.fk_models[i].fk_field>>]

ImplicitKeys(d) ==
    [i \in DOMAIN d.implicit_m2m |-> <<d.implicit_m2m[i].model, d.implicit_m2m[i].field_name>>]

ThroughKeys(d) ==
    [i \in DOMAIN d.through_models |->
        <<d.through_models[i].model, d.through_models[i].field_name>>]

Count(s, x) == Cardinality({i \in DOMAIN s : s[i] = x})

\* C2: find_related_models puts every relation that touches the target into
\* exactly one of its three lists, once: plain foreign keys in fk_models,
\* implicit many-to-many fields in implicit_m2m, the foreign keys of explicit
\* join entities in through_models; nothing is listed twice, nothing is missing.
C2_DiscoveryPartitions ==
    (pc # "start" /\ auto_detect_relations) =>
        LET all == FkKeys(found) \o ImplicitKeys(found) \o ThroughKeys(found)
            joins == JoinRelations(registry, parent_model)
        IN  /\ \A r \in FkRelations(registry, parent_model) \ joins :
                  Count(FkKeys(found), r) = 1 /\ Count(all, r) = 1
            /\ \A r \in joins :
                  Count(ThroughKeys(found), r) = 1 /\ Count(all, r) = 1
            /\ \A r \in M2MRelations(registry, parent_model, TRUE) :
                  Count(ImplicitKeys(found), r) = 1 /\ Count(all, r) = 1
            /\ Range(all) \subseteq FkRelations(registry, parent_model)
                                    \cup M2MRelations(registry, parent_model, TRUE)

(* ======================== C3: ordering invariant ======================= *)
IsTargetPkDrop(o) ==
    o.op = "RemoveField" /\ o.model_name = Lower(parent_model) /\ o.name = PkField

IsDependentDrop(o) == o.op = "RemoveField" /\ ~IsTargetPkDrop(o)

IsSetPk(o) == o.op = "AlterField" /\ o.field.primary_key

IsRestoreFk(o) == o.op = "AlterField" /\ o.field.type = "ForeignKey"

Planned == pc \in {"built", "failed", "applied"}

\* C3: in the returned plan every drop of a dependent's old foreign-key field
\* comes strictly before the drop of the target's original primary key, and
\* every restore of a dependent's foreign key comes strictly after the step
\* that marks the target's renamed field as primary key; the plan holds
\* exactly one such drop and one such marking.
C3_Ordering ==
    Planned =>
        /\ Cardinality({j \in DOMAIN operations : IsTargetPkDrop(operations[j])}) = 1
        /\ Cardinality({j \in DOMAIN operations : IsSetPk(operations[j])}) = 1
        /\ \A i, j \in DOMAIN operations :
              /\ (IsDependentDrop(operations[i]) /\ IsTargetPkDrop(operations[j])) => i < j
              /\ (IsRestoreFk(operations[i]) /\ IsSetPk(operations[j])) => j < i

\* a plan with a foreign-key holder and a join entity, each dropped and restored
C3_Witness ==
    /\ pc = "built"
    /\ found.through_models # <<>>
    /\ \E i, j \in DOMAIN operations :
          /\ IsDependentDrop(operations[i]) /\ operations[i].model_name = "lineitem"
          /\ IsDependentDrop(operations[j]) /\ operations[j].model_name = "ordertagthrough"
    /\ \E i, j \in DOMAIN operations :
          /\ IsRestoreFk(operations[i]) /\ operations[i].model_name = "lineitem"
          /\ IsRestoreFk(operations[j]) /\ operations[j].model_name = "ordertagthrough"

(* ===================== C4: referential linkage kept ==================== *)
Db0 == InitialDb(registry, refs)

\* the dependent relations of the target: <<table, field>> of every foreign
\* key that referenced it before the migration
DependentFks ==
    {r \in UNION {{<<t, f>> : f \in DOMAIN Db0[t].fields} : t \in DOMAIN Db0} :
        /\ Db0[r[1]].fields[r[2]].type = "ForeignKey"
        /\ Db0[r[1]].fields[r[2]].to = AppName \o "." \o parent_model}

\* every value the k-th target row is identified by at present
IdentityOf(k) ==
    LET row == db[Lower(parent_model)].rows[k] IN {row[c] : c \in DOMAIN row}

\* row i of table t still names, in f or in its surrogate, the row it referenced
Linked(t, f, i) ==
    \E k \in DOMAIN Db0[Lower(parent_model)].rows :
        /\ Db0[Lower(parent_model)].rows[k][PkField] = Db0[t].rows[i][f]
        /\ \E c \in {f, f \o "_uuid"} \cap DOMAIN db[t].fields :
              db[t].rows[i][c] \in IdentityOf(k)

AllReferencesLive == \A i \in DOMAIN refs : refs[i] \in LivePks

\* C4: while the plan of create_uuid_migration (automatic discovery) runs on a
\* database in which every dependent row references an existing target row,
\* after every operation every dependent row still holds, in its old
\* foreign-key field or in its surrogate field, a value that identifies the
\* target row it referenced before the migration.
C4_LinkageKept ==
    (Planned /\ auto_detect_relations /\ ~child_models.given /\ AllReferencesLive) =>
        \A r \in DependentFks : \A i \in DOMAIN db[r[1]].rows : Linked(r[1], r[2], i)

(* ========================= C5: validation gate ========================= *)
HasImplicitRelation == M2MRelations(registry, parent_model, TRUE) # {}

\* C5: if the target has an implicit many-to-many relation, in either
\* direction, create_uuid_migration ends with the blocking error that carries
\* the remediation report and returns no plan; if it has none, it returns a plan.
C5_ValidationGate ==
    pc # "start" =>
        /\ HasImplicitRelation =>
              /\ pc = "raised"
              /\ operations = <<>>
              /\ error.listed # <<>>
              /\ DOMAIN error.through_models_code # {}
        /\ ~HasImplicitRelation => Planned

(* ================= C6, C8: orphaned rows in the populate step ========== *)
IsPopulateDependent(o) == o.op = "RunPython" /\ o.code = "update_foreign_keys"

\* the child table and the field the populate step operations[n] works on
PopulateTable(n) ==
    Lower(IF operations[n].scope = "through" THEN cells.through_model ELSE cells.child_model)

PopulateField(n) ==
    IF operations[n].scope = "through" THEN cells.field_name ELSE cells.fk_field

\* operations[n] is a populate step whose child has fk as a foreign key and
\* the surrogate column next to it, and whose parent has both identifiers
PopulateInPlace(n) ==
    /\ n \in DOMAIN operations
    /\ IsPopulateDependent(operations[n])
    /\ PopulateField(n) \in DOMAIN db[PopulateTable(n)].fields
    /\ db[PopulateTable(n)].fields[PopulateField(n)].type = "ForeignKey"
    /\ PopulateField(n) \o "_uuid" \in DOMAIN db[PopulateTable(n)].fields
    /\ {PkField, PkField \o "_uuid"} \subseteq DOMAIN db[Lower(parent_model)].fields

\* the populate step operations[ip - 1] has just run to its end
JustPopulated == pc \in {"built", "applied"} /\ PopulateInPlace(ip - 1)

\* the populate step operations[ip] was aborted by an exception
PopulateAborted == pc = "failed" /\ PopulateInPlace(ip)

IsOrphan(row, f) ==
    \A k \in DOMAIN db[Lower(parent_model)].rows :
        db[Lower(parent_model)].rows[k][PkField] # row[f]

\* C6: a populate step over a nullable foreign key raises no error; when it
\* has run, every orphaned row has an empty surrogate and every other row,
\* also those after an orphaned one, has the surrogate of the row it references.
C6_NullableOrphan ==
    /\ (PopulateAborted => ~db[PopulateTable(ip)].fields[PopulateField(ip)].null)
    /\ (JustPopulated /\ db[PopulateTable(ip - 1)].fields[PopulateField(ip - 1)].null) =>
          LET t == PopulateTable(ip - 1)
              f == PopulateField(ip - 1)
          IN  \A i \in DOMAIN db[t].rows :
                 IF IsOrphan(db[t].rows[i], f)
                 THEN db[t].rows[i][f \o "_uuid"] = None
                 ELSE \E k \in DOMAIN db[Lower(parent_model)].rows :
                        /\ db[Lower(parent_model)].rows[k][PkField] = db[t].rows[i][f]
                        /\ db[t].rows[i][f \o "_uuid"]
                             = db[Lower(parent_model)].rows[k][PkField \o "_uuid"]

\* a nullable child whose first row is orphaned and whose second row was populated
C6_Witness ==
    /\ JustPopulated
    /\ db[PopulateTable(ip - 1)].fields[PopulateField(ip - 1)].null
    /\ LET rows == db[PopulateTable(ip - 1)].rows
           f == PopulateField(ip - 1)
       IN  /\ IsOrphan(rows[1], f)
           /\ rows[1][f \o "_uuid"] = None
           /\ ~IsOrphan(rows[2], f)
           /\ rows[2][f \o "_uuid"] # None

\* C8: a populate step over a non-nullable foreign key that meets an orphaned
\* row surfaces an error: it does not run to its end as if it had succeeded.
C8_NonNullableOrphanSurfaced ==
    ~(/\ JustPopulated
      /\ ~db[PopulateTable(ip - 1)].fields[PopulateField(ip - 1)].null
      /\ \E i \in DOMAIN db[PopulateTable(ip - 1)].rows :
            IsOrphan(db[PopulateTable(ip - 1)].rows[i], PopulateField(ip - 1)))

(* ============ C7: later steps accept an empty surrogate ================ *)
WasNullable(o) ==
    /\ o.name \in DOMAIN Db0[o.model_name].fields
    /\ Db0[o.model_name].fields[o.name].null

\* C7: for a dependent whose foreign key was nullable, the restored foreign
\* key is nullable too, and no restore step fails on a row whose surrogate
\* was left empty.
C7_EmptySurrogateAccepted ==
    /\ Planned =>
          \A i \in DOMAIN operations :
              (IsRestoreFk(operations[i]) /\ WasNullable(operations[i]))
                  => operations[i].field.null
    /\ ~(/\ pc = "failed"
         /\ IsRestoreFk(operations[ip])
         /\ WasNullable(operations[ip])
         /\ \E i \in DOMAIN db[operations[ip].model_name].rows :
               db[operations[ip].model_name].rows[i][operations[ip].name] = None)

(* ===================== C9: target without dependents =================== *)
NoDependents ==
    /\ FkRelations(registry, parent_model) = {}
    /\ M2MRelations(registry, parent_model, TRUE) = {}
    /\ M2MRelations(registry, parent_model, FALSE) = {}

SixStepPlan ==
    LET t == Lower(parent_model)
        uuid(nullable, pk, default) ==
            [type |-> "UUIDField", null |-> nullable, primary_key |-> pk,
             default |-> default, to |-> NoModel]
    IN  <<[op |-> "AddField", model_name |-> t, name |-> "id_uuid",
           field |-> uuid(TRUE, FALSE, None)],
          [op |-> "RunPython", model_name |-> None, code |-> "generate_uuid_for_model",
           scope |-> "parameters"],
          [op |-> "AlterField", model_name |-> t, name |-> "id_uuid",
           field |-> uuid(FALSE, FALSE, "uuid4")],
          [op |-> "RemoveField", model_name |-> t, name |-> "id"],
          [op |-> "RenameField", model_name |-> t, old_name |-> "id_uuid", new_name |-> "id"],
          [op |-> "AlterField", model_name |-> t, name |-> "id",
           field |-> uuid(FALSE, TRUE, "uuid4")]>>

\* C9: for a target without dependents create_uuid_migration returns exactly
\* six operations on the target: add the nullable surrogate, populate it,
\* tighten it, remove the original primary key, rename the surrogate to the
\* original name, set it as primary key; no dependent step, no restore step.
C9_NoDependentsPlan ==
    (pc # "start" /\ NoDependents) =>
        /\ Planned
        /\ operations = SixStepPlan

C9_Witness ==
    /\ pc = "applied"
    /\ NoDependents
    /\ Len(operations) = Len(SixStepPlan)
    /\ registry # Registry([nulls |-> <<>>, m2m |-> "none", targetFirst |-> TRUE,
                            throughFirst |-> TRUE])

(* ================== C10: the replacement join entity =================== *)
\* C10: for every implicit relation of the discovery result the generated
\* join entity has two foreign keys under two distinct field names, one to
\* the entity that declares the many-to-many field and one to the entity on
\* the other side, and a uniqueness constraint over that pair of fields.
C10_ReplacementJoinEntity ==
    pc = "raised" =>
        \A i \in DOMAIN found.implicit_m2m :
            LET e == found.implicit_m2m[i]
                declared == CHOOSE f \in Range(GetModel(registry, e.model).many_to_many) :
                                f.name = e.field_name
                code == error.through_models_code[ThroughModelName(e)]
                fks == code.foreign_keys
            IN  /\ Len(fks) = 2
                /\ fks[1].name # fks[2].name
                /\ \E a, b \in DOMAIN fks :
                      /\ a # b
                      /\ fks[a].to = AppName \o "." \o e.model
                      /\ fks[b].to = AppName \o "." \o declared.related_model
                /\ Range(code.unique_fields) = {fks[1].name, fks[2].name}

(* ============ C11: each populate step works on its own dependent ======= *)
\* C11: when the returned plan runs, every populate step of a dependent works
\* on the entity and the surrogate field of the AddField operation right
\* before it, so on no other dependent's entity or field; and when it is about
\* to run, that surrogate field exists in its table next to the old foreign
\* key (added already, not yet renamed).
C11_PopulateOwnDependent ==
    Planned =>
        \A n \in DOMAIN operations :
            IsPopulateDependent(operations[n]) =>
                /\ operations[n - 1].op = "AddField"
                /\ PopulateTable(n) = operations[n - 1].model_name
                /\ PopulateField(n) \o "_uuid" = operations[n - 1].name
                /\ (pc = "built" /\ ip = n) =>
                      /\ PopulateField(n) \o "_uuid" \in DOMAIN db[PopulateTable(n)].fields
                      /\ PopulateField(n) \in DOMAIN db[PopulateTable(n)].fields
                      /\ db[PopulateTable(n)].fields[PopulateField(n)].type = "ForeignKey"
====
